---------------------------- MODULE Spec2Model ----------------------------
(***************************************************************************)
(* Model of gen-random (src/src/main.rs): run() refills a buffer of seeds  *)
(* from /dev/urandom, and for every non-zero seed generates               *)
(* RESEED_INTERVAL buffers of xorshift64* words, writing each buffer to    *)
(* the sink with write_all.                                                *)
(*                                                                         *)
(* A u64 is the set of its set bit positions (a subset of 0..63), because  *)
(* the model checker's integers are narrower than 64 bits.  A byte is a    *)
(* number in 0..255.                                                       *)
(***************************************************************************)
EXTENDS Integers, Sequences, FiniteSets

(***************************************************************************)
(* Bounds.  The source has 4096 words per buffer (BUF_SIZE = 32 * 1024)    *)
(* and 16 buffers per seed (512 * 1024 / BUF_SIZE); the model keeps the    *)
(* code's structure and scales the two sizes down.                         *)
(***************************************************************************)
MaxBufWords == 2

MaxReseed == 2

\* length of a short read or write: each read() or write() call takes either
\* all the bytes it is offered or, when more are offered, this many
PartialLen == 5

\* src/src/main.rs:58   const N: usize = 1024 * 1024 * 1024;   (scaled)
\* the byte count up to which the test's sink accepts writes
N == 32

\* src/src/main.rs:3   const BUF_SIZE: usize = 32 * 1024;   (scaled)
BUF_SIZE == MaxBufWords * 8

\* src/src/main.rs:4   const RESEED_INTERVAL: usize = 512 * 1024 / BUF_SIZE;
\* (scaled: the numerator is MaxReseed buffers' worth of bytes)
RESEED_INTERVAL == (MaxReseed * BUF_SIZE) \div BUF_SIZE

\* src/src/main.rs:12-13   [0u64; BUF_SIZE / mem::size_of::<u64>()]
BUF_WORDS == BUF_SIZE \div 8

(***************************************************************************)
(* The same constants with the values the source configures.               *)
(***************************************************************************)
\* as CONFIGURED_BUF_SIZE, for a buffer of 32 * 1000 bytes
CONFIGURED_BUF_SIZE_decimal == 32 * 1000

\* src/src/main.rs:3   const BUF_SIZE: usize = 32 * 1024;
CONFIGURED_BUF_SIZE == 32 * 1024

\* src/src/main.rs:4   const RESEED_INTERVAL: usize = 512 * 1024 / BUF_SIZE;
CONFIGURED_RESEED_INTERVAL == (512 * 1024) \div CONFIGURED_BUF_SIZE

\* src/src/main.rs:12-13   BUF_SIZE / mem::size_of::<u64>()
CONFIGURED_BUF_WORDS == CONFIGURED_BUF_SIZE \div 8

(***************************************************************************)
(* 64-bit words                                                            *)
(***************************************************************************)
Bits == 0 .. 63

Zero == {}

\* a >> n on u64
Shr(a, n) == {i - n : i \in {j \in a : j >= n}}

\* a << n on u64 (bits shifted past bit 63 are lost)
Shl(a, n) == {i + n : i \in {j \in a : j + n <= 63}}

\* a ^ b
Xor(a, b) == (a \ b) \cup (b \ a)

Bit(a, i) == IF i \in a THEN 1 ELSE 0

\* the j-th byte (j in 0..7, 0 the least significant) of a u64, as a number
Limb(a, j) ==
    Bit(a, 8 * j) + 2 * Bit(a, 8 * j + 1) + 4 * Bit(a, 8 * j + 2)
    + 8 * Bit(a, 8 * j + 3) + 16 * Bit(a, 8 * j + 4) + 32 * Bit(a, 8 * j + 5)
    + 64 * Bit(a, 8 * j + 6) + 128 * Bit(a, 8 * j + 7)

\* the bytes of a u64, least significant first (a sequence of 8 numbers)
Limbs(a) ==
    <<Limb(a, 0), Limb(a, 1), Limb(a, 2), Limb(a, 3),
      Limb(a, 4), Limb(a, 5), Limb(a, 6), Limb(a, 7)>>

\* the u64 whose bytes, least significant first, are the sequence l
FromLimbs(l) == {i \in Bits : (l[i \div 8 + 1] \div (2 ^ (i % 8))) % 2 = 1}

\* column c of the long multiplication of the byte sequences la and lm, from
\* its i-th term on
RECURSIVE MulColumn(_, _, _, _)
MulColumn(la, lm, c, i) ==
    IF i > c THEN 0 ELSE la[i] * lm[c + 1 - i] + MulColumn(la, lm, c, i + 1)

\* the bytes of the product from column c on, with the carry into column c;
\* what would carry into a ninth column is dropped
RECURSIVE MulBytes(_, _, _, _)
MulBytes(la, lm, c, carry) ==
    IF c > 8 THEN << >>
    ELSE LET t == MulColumn(la, lm, c, 1) + carry
         IN  <<t % 256>> \o MulBytes(la, lm, c + 1, t \div 256)

\* a.wrapping_mul(m): the low 64 bits of the product, by long multiplication
\* in base 256 (the byte sequences la, lm and l are each computed once)
wrapping_mul(a, m) ==
    CHOOSE p \in
      UNION {{FromLimbs(l) : l \in {MulBytes(la, lm, 1, 0)}} :
               <<la, lm>> \in {Limbs(a)} \X {Limbs(m)}} : TRUE

(***************************************************************************)
(* A decimal literal, given by its digits, as a u64.                       *)
(***************************************************************************)
DecHalf(d) ==
    LET RECURSIVE Go(_, _)
        Go(i, carry) ==
            IF i > Len(d) THEN << >>
            ELSE LET v == carry * 10 + d[i]
                 IN  <<v \div 2>> \o Go(i + 1, v % 2)
    IN  Go(1, 0)

RECURSIVE DecBits(_, _)
DecBits(d, i) ==
    IF i > 63 \/ \A j \in 1 .. Len(d) : d[j] = 0 THEN {}
    ELSE (IF d[Len(d)] % 2 = 1 THEN {i} ELSE {}) \cup DecBits(DecHalf(d), i + 1)

U64(d) == DecBits(d, 0)

\* src/src/main.rs:43   2685821657736338717
MULTIPLIER == U64(<<2,6,8,5,8,2,1,6,5,7,7,3,6,3,3,8,7,1,7>>)

(***************************************************************************)
(* xorshift64* (src/src/main.rs:40-43)                                     *)
(***************************************************************************)
xorshift_a(x) == Xor(x, Shr(x, 12))

\* as xorshift_b, with a shift by 24 instead of 25
xorshift_b_24(x) == Xor(x, Shl(x, 24))

xorshift_b(x) == Xor(x, Shl(x, 25))

\* as xorshift_c, with the shift assigned instead of xored in: s = s >> 27
xorshift_c_assign(x) == Shr(x, 27)

xorshift_c(x) == Xor(x, Shr(x, 27))

\* the three updates of s, in the order of lines 40, 41, 42
advance(x) == xorshift_c(xorshift_b(xorshift_a(x)))

\* line 43: the word stored for the updated state x
scramble(x) == wrapping_mul(x, MULTIPLIER)

(***************************************************************************)
(* Words and bytes.  align_to / align_to_mut (lines 30 and 46) view the    *)
(* same memory as u64 and as u8, so the bytes of a word are in the byte    *)
(* order of the machine the program was built for.                         *)
(***************************************************************************)
Endians == {"little", "big"}

Reverse(q) == [i \in 1 .. Len(q) |-> q[Len(q) + 1 - i]]

\* the 8 bytes a u64 occupies in memory
word_bytes(w, e) == IF e = "little" THEN Limbs(w) ELSE Reverse(Limbs(w))

\* the u64 that 8 bytes of memory hold
bytes_word(b, e) == FromLimbs(IF e = "little" THEN b ELSE Reverse(b))

\* a [u64] buffer seen as bytes
RECURSIVE buf_bytes(_, _)
buf_bytes(buf, e) ==
    IF buf = << >> THEN << >>
    ELSE word_bytes(Head(buf), e) \o buf_bytes(Tail(buf), e)

\* a byte buffer seen as [u64]
buf_words(mem, e) ==
    [i \in 1 .. Len(mem) \div 8 |-> bytes_word(SubSeq(mem, 8 * i - 7, 8 * i), e)]

(***************************************************************************)
(* The environment: what /dev/urandom can deliver and how calls can fail.  *)
(***************************************************************************)
\* 8-byte pieces the entropy source delivers: 0, 1 and 0x0123456789abcdef
\* (written least significant byte first)
EntropyPieces ==
    { <<0, 0, 0, 0, 0, 0, 0, 0>>,
      <<1, 0, 0, 0, 0, 0, 0, 0>>,
      <<239, 205, 171, 137, 103, 69, 35, 1>> }

RECURSIVE Flatten(_)
Flatten(q) == IF q = << >> THEN << >> ELSE Head(q) \o Flatten(Tail(q))

\* the BUF_SIZE bytes one refill can read
EntropyContents == {Flatten(f) : f \in [1 .. BUF_WORDS -> EntropyPieces]}

OpenErrKinds == {"NotFound"}

ReadErrKinds == {"BrokenPipe", "Other"}

WriteErrKinds == {"BrokenPipe", "Other"}

(***************************************************************************)
(* The test's sink: struct Logger (lines 60-66) and its io::Write impl     *)
(* (lines 68-89).  Bytes are integers 0 .. 255.                            *)
(***************************************************************************)
\* Logger::default() (line 91)
Logger_default == [n_bytes |-> 0, n_ones |-> 0, prev |-> 0, n_twins |-> 0]

\* u8 << n and u8 >> n, for n < 8: bits shifted out are lost
shl8(b, n) == (b * (2 ^ n)) % 256

shr8(b, n) == b \div (2 ^ n)

\* u8 & u8 and u8 ^ u8, bit by bit from bit i up
RECURSIVE and8_from(_, _, _)
and8_from(a, b, i) ==
    IF i > 7 THEN 0
    ELSE (IF (a \div (2 ^ i)) % 2 = 1 /\ (b \div (2 ^ i)) % 2 = 1 THEN 2 ^ i ELSE 0)
         + and8_from(a, b, i + 1)

and8(a, b) == and8_from(a, b, 0)

RECURSIVE xor8_from(_, _, _)
xor8_from(a, b, i) ==
    IF i > 7 THEN 0
    ELSE (IF (a \div (2 ^ i)) % 2 # (b \div (2 ^ i)) % 2 THEN 2 ^ i ELSE 0)
         + xor8_from(a, b, i + 1)

xor8(a, b) == xor8_from(a, b, 0)

\* u8::count_ones and u8::count_zeros
RECURSIVE count_ones(_)
count_ones(b) == IF b = 0 THEN 0 ELSE (b % 2) + count_ones(b \div 2)

count_zeros(b) == 8 - count_ones(b)

\* line 77: let shifted = self.prev << 7 & e >> 1;
\* (<< and >> bind tighter than &)
shifted(p, e) == and8(shl8(p, 7), shr8(e, 1))

\* lines 75-79: the body of  for &e in buf
log_byte(lg, e) ==
    [n_bytes |-> lg.n_bytes,
     n_ones  |-> lg.n_ones + count_ones(e),
     prev    |-> e,
     n_twins |-> lg.n_twins + count_zeros(xor8(e, shifted(lg.prev, e)))]

\* lines 74-80: for &e in buf
RECURSIVE log_bytes(_, _)
log_bytes(lg, buf) ==
    IF buf = << >> THEN lg
    ELSE CHOOSE r \in
           UNION {{log_bytes(l1, Tail(buf)) : l1 \in {log_byte(lg, e)}} :
                    e \in {Head(buf)}} : TRUE

\* as Logger_closed, refusing as soon as N bytes have been received
Logger_closed_at_N(lg) == lg.n_bytes >= N

\* line 70: if self.n_bytes > N
Logger_closed(lg) == lg.n_bytes > N

\* lines 69-84: Logger::write: the result and the Logger afterwards
Logger_write(lg, buf) ==
    IF Logger_closed(lg)
    THEN [res |-> "BrokenPipe", n |-> 0, after |-> lg]
    ELSE CHOOSE r \in
           {[res |-> "Ok", n |-> Len(b),
             after |-> [log_bytes(lg, b) EXCEPT !.n_bytes = @ + Len(b)]] :
              b \in {buf}} : TRUE

(***************************************************************************)
(* State of run()                                                          *)
(***************************************************************************)
VARIABLES
    endian,     \* byte order of the build target
    pc,         \* "open" | "read" (line 30), "seed" (line 32), "gen" (38-44),
                \* "write" (line 46), "done" (run has returned)
    ret,        \* "none" | "Ok" | "Err": what run returned
    err,        \* the error kind run returned, "none" otherwise
    buf_seeds,  \* memory of buf_seeds: BUF_SIZE bytes
    buf_rands,  \* buf_rands: BUF_WORDS words
    src,        \* the bytes the opened /dev/urandom is going to deliver
    roff,       \* read_exact: bytes of buf_seeds filled so far
    si,         \* number of seed candidates the for loop of line 32 has taken
    s,          \* the loop variable s: the generator state
    k,          \* iterations of the loop of line 37 completed for this seed
    woff,       \* write_all: bytes of buf_rands the sink has accepted so far
    io,         \* result of the latest read() or write() call, "none" before
    rres,       \* result of the last refill (open + read_exact), "none" before
    wres,       \* result of the last write_all, "none" before the first
    seeds,      \* the seed candidates of the last successful refill
    genLog,     \* words generated since the last successful refill, in order
    sink,       \* bytes the sink accepted since the last successful refill
    flushed,    \* write_all calls that succeeded since the last successful refill
    produced,   \* words generated for the current seed candidate
    delivered,  \* bytes the sink accepted in the whole run, modulo BUF_SIZE
    logger      \* the test's sink (struct Logger, lines 60-66), when it is the sink

vars == <<endian, pc, ret, err, buf_seeds, buf_rands, src, roff, si, s, k, woff,
          io, rres, wres, seeds, genLog, sink, flushed, produced, delivered,
          logger>>

\* where run goes on, or what it returns
Running(p) == [pc |-> p, ret |-> "none", err |-> "none"]

ReturnOk == [pc |-> "done", ret |-> "Ok", err |-> "none"]

ReturnErr(e) == [pc |-> "done", ret |-> "Err", err |-> e]

Goto(c) == pc' = c.pc /\ ret' = c.ret /\ err' = c.err

\* as try_refill, with a BrokenPipe refill error taken for a clean shutdown
try_refill_broken_pipe_ok(res) ==
    IF res = "Ok" THEN Running("seed")
    ELSE IF res = "BrokenPipe" THEN ReturnOk
    ELSE ReturnErr(res)

\* as try_refill, with the result of line 30 dropped: let _ = ..
try_refill_ignored(res) == Running("seed")

\* line 30: the two `?` after File::open and read_exact
try_refill(res) == IF res = "Ok" THEN Running("seed") ELSE ReturnErr(res)

\* as is_zero, with the test of line 33 left out: no seed is skipped
is_zero_never(x) == FALSE

\* line 33: if s == 0
is_zero(x) == x = Zero

\* as for_reseed, with the inclusive range 0..=RESEED_INTERVAL
for_reseed_inclusive(n) == IF n <= RESEED_INTERVAL THEN "gen" ELSE "seed"

\* line 37: for _ in 0..RESEED_INTERVAL, after n iterations
for_reseed(n) == IF n < RESEED_INTERVAL THEN "gen" ELSE "seed"

\* as for_end, without the enclosing `loop`: run returns when the seeds are used up
for_end_return == ReturnOk

\* lines 29/52: the for loop over buf_seeds has ended inside `loop`
for_end == Running("open")

\* as match_write_all, with the flush tried again after any other error
match_write_all_retry(res, n) ==
    IF res = "BrokenPipe" THEN ReturnOk
    ELSE IF res # "Ok" THEN Running("write")
    ELSE Running(for_reseed(n))

\* as match_write_all, without the BrokenPipe arm: out.write_all(..)?
match_write_all_no_arm(res, n) ==
    IF res # "Ok" THEN ReturnErr(res) ELSE Running(for_reseed(n))

\* as match_write_all, with every error taken for a clean shutdown
match_write_all_any_ok(res, n) ==
    IF res # "Ok" THEN ReturnOk ELSE Running(for_reseed(n))

\* lines 46-49: match out.write_all(..), after n iterations of the loop of line 37
match_write_all(res, n) ==
    IF res = "BrokenPipe" THEN ReturnOk
    ELSE IF res # "Ok" THEN ReturnErr(res)
    ELSE Running(for_reseed(n))

\* as fill_rands, on a copy of the state: s is not updated, every buffer of
\* the interval starts from the seed again
fill_rands_on_copy(x0, buf0) ==
    LET RECURSIVE Go(_, _, _, _)
        Go(i, x, buf, gen) ==
            IF i > Len(buf0) THEN [s |-> x0, buf |-> buf, gen |-> gen]
            ELSE CHOOSE r \in
                   UNION {{Go(i + 1, x1, [buf EXCEPT ![i] = w], Append(gen, w)) :
                             w \in {scramble(x1)}} : x1 \in {advance(x)}} : TRUE
    IN  Go(1, x0, buf0, << >>)

\* as fill_rands, with the first element of buf_rands left out of the loop
fill_rands_skip_first(x0, buf0) ==
    LET RECURSIVE Go(_, _, _, _)
        Go(i, x, buf, gen) ==
            IF i > Len(buf0) THEN [s |-> x, buf |-> buf, gen |-> gen]
            ELSE CHOOSE r \in
                   UNION {{Go(i + 1, x1, [buf EXCEPT ![i] = w], Append(gen, w)) :
                             w \in {scramble(x1)}} : x1 \in {advance(x)}} : TRUE
    IN  Go(2, x0, buf0, << >>)

\* lines 38-44: for e in buf_rands.iter_mut() { advance s; *e = s * MULTIPLIER }
\* s: the state afterwards, buf: the buffer afterwards, gen: the words stored
\* (x1 is s after lines 40-42 and w the word of line 43, each computed once)
fill_rands(x0, buf0) ==
    LET RECURSIVE Go(_, _, _, _)
        Go(i, x, buf, gen) ==
            IF i > Len(buf0) THEN [s |-> x, buf |-> buf, gen |-> gen]
            ELSE CHOOSE r \in
                   UNION {{Go(i + 1, x1, [buf EXCEPT ![i] = w], Append(gen, w)) :
                             w \in {scramble(x1)}} : x1 \in {advance(x)}} : TRUE
    IN  Go(1, x0, buf0, << >>)

\* as rands_bytes, with the last word of the buffer left out of the slice
rands_bytes_short(buf, e) == buf_bytes(SubSeq(buf, 1, Len(buf) - 1), e)

\* line 46: buf_rands.align_to::<u8>().1
rands_bytes(buf, e) == buf_bytes(buf, e)

\* write_all: the part of the buffer not yet accepted (buf = &buf[n..])
unwritten(mem, off) == SubSeq(mem, off + 1, Len(mem))

\* as write_all_done, for out.write(..) in the place of out.write_all(..): one
\* call, whatever it accepted
write_once_done(mem, off) == TRUE

\* write_all: while !buf.is_empty()
write_all_done(mem, off) == off >= Len(mem)

Init ==
    /\ endian \in Endians
    /\ pc = "open" /\ ret = "none" /\ err = "none"
    /\ buf_seeds = [i \in 1 .. BUF_SIZE |-> 0]
    /\ buf_rands = [i \in 1 .. BUF_WORDS |-> Zero]
    /\ src = << >>
    /\ roff = 0 /\ si = 0 /\ s = Zero /\ k = 0 /\ woff = 0 /\ io = "none"
    /\ rres = "none" /\ wres = "none"
    /\ seeds = << >> /\ genLog = << >> /\ sink = << >>
    /\ flushed = 0 /\ produced = 0 /\ delivered = 0
    /\ logger = Logger_default

(***************************************************************************)
(* Line 30: fs::File::open(DEV_URANDOM)?.read_exact(..)?                   *)
(***************************************************************************)
\* the byte counts a read() or write() call offered len bytes can return
Accepts(len) == {n \in {PartialLen, len} : 1 <= n /\ n <= len}

OpenOk ==
    /\ pc = "open"
    /\ \E c \in EntropyContents : src' = c
    /\ pc' = "read" /\ roff' = 0
    /\ UNCHANGED <<logger, endian, ret, err, buf_seeds, buf_rands, si, s, k, woff, io, rres,
                   wres, seeds, genLog, sink, flushed, produced, delivered>>

OpenFail ==
    /\ pc = "open"
    /\ \E e \in OpenErrKinds : rres' = e /\ Goto(try_refill(e))
    /\ UNCHANGED <<logger, endian, buf_seeds, buf_rands, src, roff, si, s, k, woff, io,
                   wres, seeds, genLog, sink, flushed, produced, delivered>>

\* read() stores n > 0 bytes; read_exact goes on until the buffer is full
ReadOk ==
    /\ pc = "read"
    /\ \E n \in Accepts(Len(buf_seeds) - roff) :
         LET mem == [i \in 1 .. Len(buf_seeds) |->
                        IF roff < i /\ i <= roff + n THEN src[i] ELSE buf_seeds[i]]
         IN  /\ buf_seeds' = mem
             /\ roff' = roff + n
             /\ IF roff + n = Len(buf_seeds)
                THEN /\ rres' = "Ok"
                     /\ Goto(try_refill("Ok"))
                     /\ si' = 0
                     /\ seeds' = buf_words(mem, endian)
                     /\ genLog' = << >> /\ sink' = << >> /\ flushed' = 0
                ELSE UNCHANGED <<pc, ret, err, rres, si, seeds, genLog, sink, flushed>>
    /\ io' = "Ok"
    /\ UNCHANGED <<logger, endian, buf_rands, src, s, k, woff, wres, produced, delivered>>

\* read() returns Ok(0): read_exact fails with UnexpectedEof
ReadEof ==
    /\ pc = "read"
    /\ io' = "Ok0"
    /\ rres' = "UnexpectedEof" /\ Goto(try_refill("UnexpectedEof"))
    /\ UNCHANGED <<logger, endian, buf_seeds, buf_rands, src, roff, si, s, k, woff,
                   wres, seeds, genLog, sink, flushed, produced, delivered>>

\* read() fails with Interrupted: read_exact calls it again
ReadInterrupted ==
    /\ pc = "read"
    /\ io' = "Interrupted"
    /\ UNCHANGED <<logger, endian, pc, ret, err, buf_seeds, buf_rands, src, roff, si, s, k,
                   woff, rres, wres, seeds, genLog, sink, flushed, produced, delivered>>

\* read() fails with any other error: read_exact returns it
ReadErr ==
    /\ pc = "read"
    /\ \E e \in ReadErrKinds : io' = e /\ rres' = e /\ Goto(try_refill(e))
    /\ UNCHANGED <<logger, endian, buf_seeds, buf_rands, src, roff, si, s, k, woff,
                   wres, seeds, genLog, sink, flushed, produced, delivered>>

(***************************************************************************)
(* Lines 32-37: for mut s in buf_seeds (the array is iterated by value)    *)
(***************************************************************************)
\* as candidate, with the array iterated from its last element: .rev()
candidate_rev(i) == buf_words(buf_seeds, endian)[BUF_WORDS + 1 - i]

\* the i-th value the iterator of line 32 yields
candidate(i) == buf_words(buf_seeds, endian)[i]

ForSkipZero ==
    /\ pc = "seed" /\ si < BUF_WORDS
    /\ is_zero(candidate(si + 1))
    /\ si' = si + 1 /\ s' = candidate(si + 1) /\ produced' = 0
    /\ UNCHANGED <<logger, endian, pc, ret, err, buf_seeds, buf_rands, src, roff, k, woff,
                   io, rres, wres, seeds, genLog, sink, flushed, delivered>>

ForNext ==
    /\ pc = "seed" /\ si < BUF_WORDS
    /\ ~is_zero(candidate(si + 1))
    /\ si' = si + 1 /\ s' = candidate(si + 1) /\ produced' = 0
    /\ k' = 0 /\ pc' = for_reseed(0)
    /\ UNCHANGED <<logger, endian, ret, err, buf_seeds, buf_rands, src, roff, woff, io,
                   rres, wres, seeds, genLog, sink, flushed, delivered>>

ForEnd ==
    /\ pc = "seed" /\ si = BUF_WORDS
    /\ Goto(for_end)
    /\ UNCHANGED <<logger, endian, buf_seeds, buf_rands, src, roff, si, s, k, woff, io,
                   rres, wres, seeds, genLog, sink, flushed, produced, delivered>>

(***************************************************************************)
(* Lines 38-44: fill buf_rands                                             *)
(***************************************************************************)
Generate ==
    /\ pc = "gen"
    /\ LET r == fill_rands(s, buf_rands)
       IN  /\ s' = r.s
           /\ buf_rands' = r.buf
           /\ genLog' = genLog \o r.gen
           /\ produced' = produced + Len(r.gen)
    /\ pc' = "write" /\ woff' = 0
    /\ UNCHANGED <<logger, endian, ret, err, buf_seeds, src, roff, si, k, io, rres, wres,
                   seeds, sink, flushed, delivered>>

(***************************************************************************)
(* Lines 46-49: out.write_all(bytes of buf_rands) and the match on it      *)
(***************************************************************************)
\* write() accepts n > 0 of the bytes offered
WriteOk ==
    /\ pc = "write"
    /\ LET mem == rands_bytes(buf_rands, endian)
           rest == unwritten(mem, woff)
       IN  \E n \in Accepts(Len(rest)) :
             /\ sink' = sink \o SubSeq(rest, 1, n)
             /\ delivered' = (delivered + n) % BUF_SIZE
             /\ woff' = woff + n
             /\ IF write_all_done(mem, woff + n)
                THEN /\ wres' = "Ok"
                     /\ flushed' = flushed + 1
                     /\ k' = k + 1
                     /\ Goto(match_write_all("Ok", k + 1))
                ELSE UNCHANGED <<pc, ret, err, wres, flushed, k>>
    /\ io' = "Ok"
    /\ UNCHANGED <<logger, endian, buf_seeds, buf_rands, src, roff, si, s, rres, seeds,
                   genLog, produced>>

\* write() returns Ok(0): write_all fails with WriteZero
WriteZero ==
    /\ pc = "write"
    /\ io' = "Ok0"
    /\ wres' = "WriteZero" /\ Goto(match_write_all("WriteZero", k))
    /\ UNCHANGED <<logger, endian, buf_seeds, buf_rands, src, roff, si, s, k, woff,
                   rres, seeds, genLog, sink, flushed, produced, delivered>>

\* write() fails with Interrupted: write_all calls it again
WriteInterrupted ==
    /\ pc = "write"
    /\ io' = "Interrupted"
    /\ UNCHANGED <<logger, endian, pc, ret, err, buf_seeds, buf_rands, src, roff, si, s, k,
                   woff, rres, wres, seeds, genLog, sink, flushed, produced, delivered>>

\* write() fails with any other error: write_all returns it
WriteErr ==
    /\ pc = "write"
    /\ \E e \in WriteErrKinds : io' = e /\ wres' = e /\ Goto(match_write_all(e, k))
    /\ UNCHANGED <<logger, endian, buf_seeds, buf_rands, src, roff, si, s, k, woff,
                   rres, seeds, genLog, sink, flushed, produced, delivered>>

Next ==
    \/ OpenOk \/ OpenFail
    \/ ReadOk \/ ReadEof \/ ReadInterrupted \/ ReadErr
    \/ ForSkipZero \/ ForNext \/ ForEnd
    \/ Generate
    \/ WriteOk \/ WriteZero \/ WriteInterrupted \/ WriteErr

Spec == Init /\ [][Next]_vars

(***************************************************************************)
(* quick_randomness_test (lines 57-119): run(&mut w) with w a Logger, on   *)
(* an entropy source that never fails and delivers a non-zero seed         *)
(* candidate in every refill.                                              *)
(***************************************************************************)
\* the refills with a non-zero seed candidate among their words
NonZeroContents ==
    {c \in EntropyContents : \E i \in 1 .. Len(c) : c[i] # 0}

\* open() succeeds on such a refill
LoggerOpen ==
    /\ pc = "open"
    /\ \E c \in NonZeroContents : src' = c
    /\ pc' = "read" /\ roff' = 0
    /\ UNCHANGED <<logger, endian, ret, err, buf_seeds, buf_rands, si, s, k, woff, io, rres,
                   wres, seeds, genLog, sink, flushed, produced, delivered>>

\* Logger::write takes the whole buffer (lines 74-83): write_all is done
LoggerAccept ==
    /\ pc = "write"
    /\ \E mem \in {rands_bytes(buf_rands, endian)} :
       \E rest \in {unwritten(mem, woff)} :
       \E w \in {Logger_write(logger, rest)} :
           /\ w.res = "Ok"
           /\ logger' = w.after
           /\ sink' = sink \o SubSeq(rest, 1, w.n)
           /\ delivered' = (delivered + w.n) % BUF_SIZE
           /\ woff' = woff + w.n
           /\ IF write_all_done(mem, woff + w.n)
              THEN /\ wres' = "Ok"
                   /\ flushed' = flushed + 1
                   /\ k' = k + 1
                   /\ Goto(match_write_all("Ok", k + 1))
              ELSE UNCHANGED <<pc, ret, err, wres, flushed, k>>
    /\ io' = "Ok"
    /\ UNCHANGED <<endian, buf_seeds, buf_rands, src, roff, si, s, rres, seeds,
                   genLog, produced>>

\* Logger::write refuses (lines 70-72): write_all returns the error
LoggerBrokenPipe ==
    /\ pc = "write"
    /\ \E w \in {Logger_write(logger, unwritten(rands_bytes(buf_rands, endian), woff))} :
           /\ w.res # "Ok"
           /\ logger' = w.after
           /\ io' = w.res /\ wres' = w.res /\ Goto(match_write_all(w.res, k))
    /\ UNCHANGED <<endian, buf_seeds, buf_rands, src, roff, si, s, k, woff,
                   rres, seeds, genLog, sink, flushed, produced, delivered>>

LoggerNext ==
    \/ LoggerOpen
    \/ ReadOk
    \/ ForSkipZero \/ ForNext \/ ForEnd
    \/ Generate
    \/ LoggerAccept \/ LoggerBrokenPipe

\* run is one thread that keeps executing, and every call it makes returns
LoggerSpec == Init /\ [][LoggerNext]_vars /\ WF_vars(LoggerNext)

(***************************************************************************)
(* Termination contract                                                    *)
(***************************************************************************)
RefillFailed == rres \notin {"none", "Ok"}

FlushBrokenPipe == wres = "BrokenPipe"

FlushFailed == wres \notin {"none", "Ok", "BrokenPipe"}

\* C1: whenever write_all has failed with BrokenPipe - on whichever write of
\* the run - run has returned Ok(()) and no error, and from then on nothing
\* changes: no sink write and no entropy read follows.
C1_CleanShutdown ==
    /\ [](FlushBrokenPipe => (pc = "done" /\ ret = "Ok" /\ err = "none"))
    /\ [][FlushBrokenPipe => UNCHANGED vars]_vars

\* a later flush of the run is cut off by BrokenPipe after part of the buffer
\* was accepted, and run has returned Ok
C1_Witness ==
    FlushBrokenPipe /\ ret = "Ok" /\ flushed > 0 /\ woff > 0 /\ io = "BrokenPipe"

\* C2: whenever write_all has failed with an error other than BrokenPipe, run
\* has returned Err with that same error, and from then on nothing changes.
C2_WriteErrorFatal ==
    /\ [](FlushFailed => (pc = "done" /\ ret = "Err" /\ err = wres))
    /\ [][FlushFailed => UNCHANGED vars]_vars

\* a later flush fails with another error and run has returned it
C2_Witness == wres = "Other" /\ ret = "Err" /\ err = "Other" /\ flushed > 0

\* C3: whenever a refill has failed (open error, read error of any kind
\* read_exact returns, BrokenPipe included, or a short read), run has returned
\* Err with that error, never Ok, and from then on nothing changes: no buffer
\* is generated or written.
C3_RefillErrorFatal ==
    /\ [](RefillFailed => (pc = "done" /\ ret = "Err" /\ err = rres))
    /\ [][RefillFailed => UNCHANGED vars]_vars

\* a refill after a successful one fails with BrokenPipe in the middle of the
\* buffer and run has returned that error
C3_Witness ==
    /\ rres = "BrokenPipe" /\ ret = "Err" /\ err = "BrokenPipe"
    /\ seeds # << >> /\ roff > 0

\* C4: run has returned exactly when pc = "done"; it has returned Ok only if
\* the last write reported BrokenPipe, Err only if the last refill failed or
\* the last write_all failed with another error; while every refill and every
\* write_all has succeeded it has not returned.
C4_OnlyTerminals ==
    /\ (pc = "done") <=> (ret # "none")
    /\ ret = "Ok" => (FlushBrokenPipe /\ io = "BrokenPipe")
    /\ ret = "Err" => ((RefillFailed /\ err = rres) \/ (FlushFailed /\ err = wres))
    /\ (~RefillFailed /\ ~FlushBrokenPipe /\ ~FlushFailed) => (ret = "none" /\ pc # "done")

\* every seed of a buffer was used up without any failure and run is back at
\* the refill, still running
C4_Witness ==
    /\ pc = "open" /\ ret = "none" /\ rres = "Ok" /\ wres = "Ok"
    /\ flushed = BUF_WORDS * RESEED_INTERVAL

(***************************************************************************)
(* Reseed schedule                                                         *)
(***************************************************************************)
\* the for loop of line 32 has just finished with candidate si, and it was
\* a non-zero seed
SeedUsedUp == pc = "seed" /\ si >= 1 /\ seeds[si] # Zero

\* C5 as the specification words it: RESEED_INTERVAL counts words, so a seed
\* is left after RESEED_INTERVAL words, RESEED_INTERVAL / BUF_WORDS buffers.
C5_CadenceInWords ==
    SeedUsedUp => (produced = RESEED_INTERVAL /\ k = RESEED_INTERVAL \div BUF_WORDS)

\* C5, amended: RESEED_INTERVAL counts buffers.  When generation moves on from
\* a non-zero seed, exactly RESEED_INTERVAL buffers, RESEED_INTERVAL * BUF_WORDS
\* words, were generated from it, every one followed by one completed flush;
\* during the interval the words generated are one buffer ahead of the
\* flushes exactly while a flush is under way.
C5_CadenceInBuffers ==
    /\ SeedUsedUp => (k = RESEED_INTERVAL /\ produced = RESEED_INTERVAL * BUF_WORDS)
    /\ pc = "gen" => (k < RESEED_INTERVAL /\ produced = k * BUF_WORDS)
    /\ pc = "write" => (k < RESEED_INTERVAL /\ produced = (k + 1) * BUF_WORDS)

\* a non-zero seed is used up and the next candidate is another non-zero seed
C5_Witness ==
    /\ SeedUsedUp /\ si < BUF_WORDS
    /\ seeds[si + 1] # Zero /\ seeds[si + 1] # seeds[si]
    /\ k = RESEED_INTERVAL /\ produced = RESEED_INTERVAL * BUF_WORDS

\* the number of non-zero seeds among the first n candidates
RECURSIVE NonZeroSeeds(_, _)
NonZeroSeeds(q, n) ==
    IF n = 0 THEN 0 ELSE NonZeroSeeds(q, n - 1) + (IF q[n] # Zero THEN 1 ELSE 0)

\* C6: a zero candidate produces no word and no flush: once si candidates of
\* a buffer are dealt with, the flushes since the refill number (non-zero
\* candidates among them) * RESEED_INTERVAL, and so do the flushes between two
\* refills with all BUF_WORDS candidates; an all-zero buffer gives none.
C6_ZeroSkip ==
    /\ pc = "seed" =>
         /\ flushed = NonZeroSeeds(seeds, si) * RESEED_INTERVAL
         /\ Len(genLog) = flushed * BUF_WORDS
         /\ (si >= 1 /\ seeds[si] = Zero) => produced = 0
    /\ (pc \in {"open", "read"} /\ seeds # << >>) =>
         flushed = NonZeroSeeds(seeds, BUF_WORDS) * RESEED_INTERVAL
    /\ (RefillFailed /\ seeds # << >>) =>
         flushed = NonZeroSeeds(seeds, BUF_WORDS) * RESEED_INTERVAL

\* a buffer with a zero candidate before a non-zero one has been used up:
\* the run is at the next refill after the flushes of the one seed
C6_Witness ==
    /\ pc = "open" /\ seeds # << >>
    /\ seeds[1] = Zero /\ seeds[BUF_WORDS] # Zero
    /\ NonZeroSeeds(seeds, BUF_WORDS) = BUF_WORDS - 1
    /\ flushed = (BUF_WORDS - 1) * RESEED_INTERVAL

(***************************************************************************)
(* The xorshift64* reference of the specification, bit by bit               *)
(***************************************************************************)
\* bit i of x XOR (x >> n) is bit i of x XOR bit i + n of x
RefXorShr(x, n) == {i \in Bits : (i \in x) # (i + n \in x)}

\* bit i of x XOR (x << n) is bit i of x XOR bit i - n of x, if there is one
RefXorShl(x, n) == {i \in Bits : (i \in x) # (i >= n /\ i - n \in x)}

RefAdvance(x) == RefXorShr(RefXorShl(RefXorShr(x, 12), 25), 27)

\* 2685821657736338717 = 0x2545F4914F6CDD1D, least significant byte first
RefMultiplier == FromLimbs(<<29, 221, 108, 79, 145, 244, 69, 37>>)

\* a * m modulo 2^64 by binary long multiplication: bit i of the product is
\* the parity of (the number of pairs of set bits j of a and i - j of m, plus
\* the carry out of bit i - 1)
RECURSIVE RefMulFrom(_, _, _, _)
RefMulFrom(a, m, i, carry) ==
    IF i > 63 THEN {}
    ELSE LET t == Cardinality({j \in 0 .. i : j \in a /\ (i - j) \in m}) + carry
         IN  (IF t % 2 = 1 THEN {i} ELSE {}) \cup RefMulFrom(a, m, i + 1, t \div 2)

RefWord(x) == RefMulFrom(x, RefMultiplier, 0, 0)

\* the state after n advances from x
RECURSIVE RefState(_, _)
RefState(x, n) == IF n = 0 THEN x ELSE RefAdvance(RefState(x, n - 1))

One == U64(<<1>>)

\* the first word the reference generator gives for seed 1, 5180492295206395165
GoldenSeed1 == U64(<<5,1,8,0,4,9,2,2,9,5,2,0,6,3,9,5,1,6,5>>)

\* C7: every fill of buf_rands advances the state once per word by the three
\* xorshifts (12 right, 25 left, 27 right, in 64 bits) and stores the updated
\* state times 2685821657736338717 modulo 2^64: word j of the buffer is the
\* reference word of the state after j reference advances, and the state
\* left is the one after BUF_WORDS advances.  The first word for seed 1 is
\* the fixed word 5180492295206395165.
C7_Xorshift64Star ==
    /\ [][pc = "gen" =>
            /\ \A j \in 1 .. BUF_WORDS : buf_rands'[j] = RefWord(RefState(s, j))
            /\ s' = RefState(s, BUF_WORDS)]_vars
    /\ []((pc = "write" /\ produced = BUF_WORDS /\ seeds[si] = One)
            => buf_rands[1] = GoldenSeed1)

\* the first buffer generated for seed 1 starts with the golden word
C7_Witness ==
    /\ pc = "write" /\ produced = BUF_WORDS /\ seeds[si] = One
    /\ buf_rands[1] = GoldenSeed1
    /\ buf_rands[2] = RefWord(RefState(One, 2))

(***************************************************************************)
(* The output stream                                                       *)
(***************************************************************************)
\* the seed values a candidate can have on either kind of machine
SeedWords == {bytes_word(p, e) : p \in EntropyPieces, e \in Endians}

\* the words one seed gives: n successive advances, each one scrambled
RECURSIVE SeedStream(_, _)
SeedStream(x, n) ==
    IF n = 0 THEN << >>
    ELSE LET x1 == advance(x) IN <<scramble(x1)>> \o SeedStream(x1, n - 1)

\* the streams of all seed values, as pairs <<seed, its words>>
SeedStreams == {<<x, SeedStream(x, RESEED_INTERVAL * BUF_WORDS)>> : x \in SeedWords}

StreamOf(x) == (CHOOSE p \in SeedStreams : p[1] = x)[2]

\* the words a sequence of seed candidates gives: nothing for a zero, the
\* stream of the seed otherwise, in the order of the candidates
RECURSIVE StreamOfSeeds(_)
StreamOfSeeds(q) ==
    IF q = << >> THEN << >>
    ELSE (IF Head(q) = Zero THEN << >> ELSE StreamOf(Head(q))) \o StreamOfSeeds(Tail(q))

IsPrefix(p, q) == Len(p) <= Len(q) /\ p = SubSeq(q, 1, Len(p))

\* C8: the bytes delivered are a function of the seed values alone: what the
\* sink has accepted since a refill is the leading part, of the length
\* accepted, of the byte stream fixed by the seed values of that refill -
\* whatever the sink accepted per call and whatever was in the buffers before.
C8_Determinism == IsPrefix(sink, buf_bytes(StreamOfSeeds(seeds), endian))

\* the whole output of a buffer holding two different non-zero seeds has
\* been delivered and the run is at the next refill
C8_Witness ==
    /\ pc = "open" /\ seeds # << >>
    /\ seeds[1] # Zero /\ seeds[2] # Zero /\ seeds[1] # seeds[2]
    /\ Len(sink) = 8 * Len(StreamOfSeeds(seeds))
    /\ Len(sink) >= 2 * BUF_SIZE * RESEED_INTERVAL

\* C9: the bytes delivered are the words generated, in the order generated;
\* at most one buffer is generated and not yet written; a buffer is generated
\* only when everything generated before is delivered; and the buffer being
\* written is made up of the BUF_WORDS words generated last, so that no word
\* of an earlier round is written again.
C9_Ordering ==
    /\ IsPrefix(sink, buf_bytes(genLog, endian))
    /\ 8 * Len(genLog) - Len(sink) <= BUF_SIZE
    /\ pc \in {"gen", "seed", "open", "read"} => Len(sink) = 8 * Len(genLog)
    /\ pc = "write" =>
         /\ Len(genLog) >= BUF_WORDS
         /\ buf_rands = SubSeq(genLog, Len(genLog) - BUF_WORDS + 1, Len(genLog))
         /\ Len(sink) = 8 * (Len(genLog) - BUF_WORDS) + woff

\* the second seed of a buffer is being written, part of the buffer accepted
C9_Witness ==
    /\ pc = "write" /\ si = 2 /\ woff > 0
    /\ flushed > RESEED_INTERVAL
    /\ seeds[1] # seeds[2]

\* C10 as the specification words it: every write call carries BUF_SIZE
\* bytes, and the bytes delivered are a multiple of BUF_SIZE whenever no flush
\* is under way.
C10_SingleWriteCall ==
    /\ pc = "write" => Len(unwritten(rands_bytes(buf_rands, endian), woff)) = BUF_SIZE
    /\ pc # "write" => delivered = 0

\* C10, amended: a buffer is handed over by one write_all, whose first write
\* call carries BUF_SIZE bytes and whose later calls carry the bytes not yet
\* accepted; the bytes delivered are a multiple of BUF_SIZE between flushes and
\* after a failed refill, and after a failed flush they exceed one by what
\* the sink accepted of the last buffer, fewer than BUF_SIZE bytes.
C10_WriteAllUnit ==
    /\ pc = "write" =>
         /\ woff < BUF_SIZE
         /\ Len(unwritten(rands_bytes(buf_rands, endian), woff)) = BUF_SIZE - woff
         /\ delivered = woff
    /\ pc \in {"open", "read", "seed", "gen"} => delivered = 0
    /\ (pc = "done" /\ RefillFailed) => delivered = 0
    /\ (pc = "done" /\ ~RefillFailed) => (woff < BUF_SIZE /\ delivered = woff)

\* a write call is about to carry the rest of a buffer after a short write
C10_Witness ==
    /\ pc = "write" /\ woff > 0 /\ io = "Ok"
    /\ Len(unwritten(rands_bytes(buf_rands, endian), woff)) = BUF_SIZE - woff
    /\ flushed > 0

(***************************************************************************)
(* C11: with the test's Logger as the sink, which takes every write whole  *)
(* while it has received at most N bytes and reports BrokenPipe on the     *)
(* first write after that, and an entropy source that never fails and      *)
(* keeps delivering non-zero seeds, run eventually returns, it returns     *)
(* Ok, and the Logger has then received more than N bytes: the smallest    *)
(* multiple of BUF_SIZE greater than N.                                    *)
(***************************************************************************)
C11_LoggerTerminates ==
    /\ <>(pc = "done")
    /\ [](pc = "done" =>
            /\ ret = "Ok"
            /\ logger.n_bytes > N
            /\ logger.n_bytes = ((N \div BUF_SIZE) + 1) * BUF_SIZE)

\* run has returned Ok after a BrokenPipe of the Logger past N bytes
C11_Witness ==
    /\ pc = "done" /\ ret = "Ok" /\ wres = "BrokenPipe"
    /\ logger.n_bytes > N

(***************************************************************************)
(* C13: every word of a freshly filled buf_seeds is taken as a seed        *)
(* candidate exactly once, in buffer order, before the next refill; a      *)
(* refill starts only when all BUF_WORDS candidates have been taken, and   *)
(* it replaces the whole buffer.                                           *)
(***************************************************************************)
\* the step takes a seed candidate
TakesCandidate == si' # si /\ si' # 0

\* line 30 is being executed
Refilling == pc \in {"open", "read"}

\* the step completes a refill
CompletesRefill == pc = "read" /\ pc' = "seed"

C13_CandidatesInOrder ==
    /\ [][TakesCandidate =>
            /\ pc = "seed" /\ si' = si + 1 /\ si' <= BUF_WORDS
            /\ s' = seeds[si']
            /\ UNCHANGED <<buf_seeds, seeds>>]_vars
    /\ [][pc # "open" /\ pc' = "open" => si = BUF_WORDS]_vars
    /\ [][Refilling => (CompletesRefill \/ UNCHANGED <<si, s>>)]_vars
    /\ [][CompletesRefill =>
            /\ si \in {0, BUF_WORDS} /\ si' = 0
            /\ buf_seeds' = src
            /\ seeds' = buf_words(src, endian)]_vars

\* a second refill is under way after all candidates of the first were taken,
\* one of them having produced output
C13_Witness ==
    /\ pc = "read" /\ roff > 0
    /\ si = BUF_WORDS /\ flushed > 0

(***************************************************************************)
(* C14: every refill asks the entropy source for exactly BUF_SIZE =        *)
(* 8 * BUF_WORDS bytes (one read_exact on the whole of buf_seeds, whose    *)
(* read() calls ask for the bytes still missing) and succeeds only when    *)
(* buf_seeds is filled completely; the first I/O of run is such a refill,  *)
(* so nothing is written to the sink before the first refill succeeded.    *)
(***************************************************************************)
\* no refill has succeeded yet
BeforeFirstRefill == seeds = << >>

C14_RefillRequests ==
    /\ [](BUF_SIZE = 8 * BUF_WORDS /\ Len(buf_seeds) = BUF_SIZE)
    /\ [](pc = "read" => Len(src) = BUF_SIZE /\ roff < BUF_SIZE)
    /\ [][pc = "open" /\ pc' = "read" => roff' = 0]_vars
    /\ [][CompletesRefill => roff' = BUF_SIZE /\ buf_seeds' = src]_vars
    /\ [](BeforeFirstRefill =>
            /\ Refilling \/ (pc = "done" /\ ret = "Err")
            /\ sink = << >> /\ delivered = 0 /\ wres = "none"
            /\ genLog = << >> /\ flushed = 0)

\* the first refill has had a short read; nothing has been written
C14_Witness ==
    /\ BeforeFirstRefill
    /\ pc = "read" /\ roff = PartialLen /\ io = "Ok"
    /\ sink = << >>

(***************************************************************************)
(* C15 as the specification words it: the configured RESEED_INTERVAL is a  *)
(* multiple of BUF_WORDS = BUF_SIZE / 8, so that RESEED_INTERVAL /         *)
(* BUF_WORDS is a whole, positive number of buffer fills per seed (a seed   *)
(* that is used up has had at least one).                                  *)
(***************************************************************************)
C15_IntervalMultipleOfWords ==
    /\ CONFIGURED_BUF_WORDS * 8 = CONFIGURED_BUF_SIZE
    /\ CONFIGURED_RESEED_INTERVAL % CONFIGURED_BUF_WORDS = 0
    /\ CONFIGURED_RESEED_INTERVAL \div CONFIGURED_BUF_WORDS >= 1
    /\ SeedUsedUp => k >= 1

(***************************************************************************)
(* C15, amended: BUF_SIZE is a multiple of 8 and divides 512 * 1024, so    *)
(* BUF_WORDS and RESEED_INTERVAL are whole and positive; RESEED_INTERVAL   *)
(* is itself the number of buffer fills per seed (it is smaller than       *)
(* BUF_WORDS), and the words per seed, RESEED_INTERVAL * BUF_WORDS, are a  *)
(* multiple of BUF_WORDS.                                                  *)
(***************************************************************************)
C15_BuffersPerSeed ==
    /\ CONFIGURED_BUF_WORDS * 8 = CONFIGURED_BUF_SIZE
    /\ CONFIGURED_RESEED_INTERVAL * CONFIGURED_BUF_SIZE = 512 * 1024
    /\ CONFIGURED_RESEED_INTERVAL >= 1
    /\ CONFIGURED_RESEED_INTERVAL < CONFIGURED_BUF_WORDS
    /\ (CONFIGURED_RESEED_INTERVAL * CONFIGURED_BUF_WORDS) % CONFIGURED_BUF_WORDS = 0
    /\ BUF_WORDS * 8 = BUF_SIZE /\ RESEED_INTERVAL >= 1
    /\ SeedUsedUp => (k = RESEED_INTERVAL /\ k >= 1)

\* a seed is used up after RESEED_INTERVAL buffer fills, for the configured
\* 16 buffers of 4096 words
C15_Witness ==
    /\ SeedUsedUp /\ k = RESEED_INTERVAL /\ flushed >= RESEED_INTERVAL
    /\ CONFIGURED_RESEED_INTERVAL = 16 /\ CONFIGURED_BUF_WORDS = 4096

(***************************************************************************)
(* C16: within one seed's interval the state is carried across the         *)
(* boundaries of buf_rands: the j-th word generated for the seed is the    *)
(* scrambled state after j successive advances from the seed, and the      *)
(* state is the one after as many advances as words were generated; it is  *)
(* the seed itself when generation for a candidate starts.                 *)
(***************************************************************************)
\* the state n advances after x
RECURSIVE StateAfter(_, _)
StateAfter(x, n) == IF n = 0 THEN x ELSE advance(StateAfter(x, n - 1))

C16_StateCarried ==
    pc \in {"gen", "write"} =>
      /\ si >= 1 /\ seeds[si] # Zero
      /\ produced <= Len(genLog)
      /\ SubSeq(genLog, Len(genLog) - produced + 1, Len(genLog))
           = SubSeq(StreamOf(seeds[si]), 1, produced)
      /\ s = StateAfter(seeds[si], produced)

\* a later buffer of a seed's interval has been generated
C16_Witness ==
    /\ pc = "write" /\ k >= 1
    /\ produced = (k + 1) * BUF_WORDS
    /\ s = StateAfter(seeds[si], produced)

(***************************************************************************)
(* C17 as the specification words it: no retries anywhere.  Whenever a     *)
(* write() call of the sink or a read() call of the entropy source reports *)
(* an error, of whatever kind, the call is not made again: run has         *)
(* returned, Ok for a BrokenPipe of write() and the error otherwise.       *)
(***************************************************************************)
\* the latest read() or write() call reported an error
CallFailed == io \notin {"none", "Ok", "Ok0"}

\* what run returns for the error of the latest call
FatalOutcome ==
    /\ pc = "done"
    /\ IF io = "BrokenPipe" /\ rres = "Ok"
       THEN ret = "Ok" /\ wres = "BrokenPipe"
       ELSE ret = "Err" /\ err = io

C17_NoRetries == CallFailed => FatalOutcome

(***************************************************************************)
(* C17, amended: an error of any kind but Interrupted is never retried:    *)
(* run has returned, Ok for a BrokenPipe of write() and the error          *)
(* otherwise.  An Interrupted read() or write() is retried: read_exact /   *)
(* write_all makes the same call again, for the same bytes, and run goes   *)
(* on.                                                                     *)
(***************************************************************************)
C17_OnlyInterruptedRetried ==
    /\ [](CallFailed /\ io # "Interrupted" => FatalOutcome)
    /\ [](io = "Interrupted" => pc \in {"read", "write"} /\ ret = "none")
    /\ [][io' = "Interrupted" =>
            UNCHANGED <<pc, ret, err, buf_seeds, buf_rands, roff, woff, sink,
                        rres, wres>>]_vars

\* write() was interrupted after a short write: the rest is about to be
\* offered again
C17_Witness ==
    /\ pc = "write" /\ io = "Interrupted"
    /\ 0 < woff /\ woff < BUF_SIZE

(***************************************************************************)
(* C18: twin bits in the test's sink.  For consecutive bytes prev, cur the *)
(* value compared with cur is (prev << 7) | (cur >> 1) in 8-bit            *)
(* arithmetic, and n_twins grows by the number of bit positions in which   *)
(* cur and that value are equal.                                           *)
(***************************************************************************)
\* (p << 7) | (c >> 1) on u8: bit 7 is bit 0 of p, bits 6..0 are bits 7..1 of c
TwinShifted(p, c) == (p % 2) * 128 + (c \div 2)

\* the bit positions in which c and TwinShifted(p, c) are equal
TwinBits(p, c) ==
    Cardinality({i \in 0 .. 7 :
        (c \div (2 ^ i)) % 2 = (TwinShifted(p, c) \div (2 ^ i)) % 2})

\* the twin bits of the bytes of buf, the byte before them being p
RECURSIVE TwinBitsOf(_, _)
TwinBitsOf(p, buf) ==
    IF buf = << >> THEN 0
    ELSE TwinBits(p, Head(buf)) + TwinBitsOf(Head(buf), Tail(buf))

C18_TwinBitsCounted ==
    [][logger'.n_bytes # logger.n_bytes =>
         logger'.n_twins = logger.n_twins
            + TwinBitsOf(logger.prev,
                         unwritten(rands_bytes(buf_rands, endian), woff))]_vars

(***************************************************************************)
(* C19: the advance step preserves zero-ness.  State 0 is a fixed point    *)
(* and yields the word 0; no non-zero state is mapped to 0 (checked for    *)
(* every word with one or two bits set and for every state generation      *)
(* reaches); so, zero seeds being skipped, the state is non-zero whenever  *)
(* a word is generated.                                                    *)
(***************************************************************************)
\* the words with one or two bits set
LowWeightWords == {{i, j} : i \in Bits, j \in Bits}

ZeroIsFixed == advance(Zero) = Zero /\ scramble(Zero) = Zero

LowWeightStaysNonZero == \A x \in LowWeightWords : advance(x) # Zero

C19_ZeroPreserved ==
    /\ ZeroIsFixed
    /\ LowWeightStaysNonZero
    /\ pc \in {"gen", "write"} =>
         /\ s # Zero
         /\ \A j \in 0 .. produced : StateAfter(seeds[si], j) # Zero

\* words are being generated for a seed that follows a skipped zero
C19_Witness ==
    /\ pc = "write" /\ produced >= 1 /\ s # Zero
    /\ si >= 2 /\ seeds[si - 1] = Zero

=============================================================================
